---- MODULE Spec2Model ----
(***************************************************************************)
(* A model of pyhodl's balance reconstruction core:                        *)
(*   - DatetimeTable          (src/pyhodl/models/tables.py)                *)
(*   - CryptoExchange         (src/pyhodl/core/models/exchanges.py)        *)
(*   - Portfolio              (src/pyhodl/core/models/exchanges.py)        *)
(*   - the exchange parsers   (src/pyhodl/data/exchanges.py)               *)
(* Timestamps are integers (seconds), time differences are integers, and   *)
(* float("inf") is a number larger than every difference of the model.     *)
(* Python's None is the string "None" where the other values are strings   *)
(* and the number NoDate where the other values are timestamps.  A raised  *)
(* exception is recorded by its class name in the result of the call.      *)
(***************************************************************************)
EXTENDS Integers, Sequences, FiniteSets, TLC

VARIABLES
    \* DatetimeTable
    tstate,         \* "new" before __init__, "built" after
    content,        \* self.content: date -> raw record
    dates,          \* self.dates: ascending list of the dates
    max_error,      \* self.max_error
    dt,             \* argument of the last get_values_on call
    found,          \* outcome of the last get_values_on call
    \* Portfolio.get_balances_from_deltas
    dpc,            \* "start", "called", "replayed"
    deltas,         \* argument of the call
    balances,       \* its outcome
    shuffled,       \* the same deltas in another order
    shuffled_balances,  \* the outcome of the call on them
    \* CryptoExchange
    estate,         \* "none", "built", "ValueError"
    given,          \* argument of CryptoExchange.__init__
    transactions,   \* self.transactions
    wallets,        \* outcome of build_wallets: coin -> transactions of its Wallet
    wallets_built,  \* build_wallets has returned
    \* Portfolio.get_current_balance
    pwallets,       \* self.wallets
    pstate,         \* "built", "asked"
    current_balance,    \* outcome of get_current_balance
    last_balance,   \* the argument last of show_balance, as parse_balance reads it
    shown,          \* outcome of show_balance
    \* parsers
    parser,         \* the parser class of the last call
    raw,            \* the raw record of the last call
    coins_amounts,  \* outcome of get_coins_amounts(raw)
    commission      \* outcome of get_commission(raw)

tableVars == <<tstate, content, dates, max_error, dt, found>>
deltaVars == <<dpc, deltas, balances, shuffled, shuffled_balances>>
exchVars == <<estate, given, transactions, wallets, wallets_built>>
portVars == <<pwallets, pstate, current_balance, last_balance, shown>>
parserVars == <<parser, raw, coins_amounts, commission>>
vars == <<tableVars, deltaVars, exchVars, portVars, parserVars>>

(***************************************************************************)
(* Helpers on sequences                                                    *)
(***************************************************************************)
Range(s) == {s[i] : i \in DOMAIN s}

SeqsUpTo(S, n) == UNION {[1..k -> S] : k \in 0..n}

Min(S) == CHOOSE x \in S : \A y \in S : x <= y

\* sorted(S) for a collection S of distinct integers
RECURSIVE sorted(_)
sorted(S) == IF S = {} THEN << >> ELSE <<Min(S)>> \o sorted(S \ {Min(S)})

(***************************************************************************)
(* DatetimeTable                                                           *)
(***************************************************************************)
MaxDate == 5
MaxItems == 3
MaxError == 3

Inf == 1000000
NoDate == -1

Date == 0..MaxDate
Value == {"a", "b"}
Item == [date : Date, val : Value]
NoItem == [date |-> NoDate, val |-> "None"]

\* pyhodl.utils.parse_datetime: the timestamp a date key stands for
parse_datetime(date) == date

\* {item["date"]: item for item in self.get_content()}: a later item replaces
\* an earlier one with the same date
dict_by_date(items) ==
    [d \in {items[i].date : i \in DOMAIN items} |->
        items[CHOOSE i \in DOMAIN items :
                /\ items[i].date = d
                /\ \A j \in DOMAIN items : items[j].date = d => j <= i]]

DatetimeTableInit ==
    /\ tstate = "new"
    /\ \E items \in SeqsUpTo(Item, MaxItems), max_error_search \in 0..MaxError :
            /\ content' = dict_by_date(items)
            /\ dates' = sorted({parse_datetime(d) : d \in DOMAIN dict_by_date(items)})
            /\ max_error' = max_error_search
    /\ tstate' = "built"
    /\ UNCHANGED <<dt, found>>
    /\ UNCHANGED <<deltaVars, exchVars, portVars, parserVars>>

\* bisect.bisect(a, x) = bisect_right(a, x, 0, len(a)), a 0-based insertion point
RECURSIVE bisect_right(_, _, _, _)
bisect_right(a, x, lo, hi) ==
    IF lo < hi
    THEN LET mid == (lo + hi) \div 2
         IN IF x < a[mid + 1]
            THEN bisect_right(a, x, lo, mid)
            ELSE bisect_right(a, x, mid + 1, hi)
    ELSE lo

bisect(a, x) == bisect_right(a, x, 0, Len(a))

\* the outcome of get_values_on(dt): the record returned, None, or the
\* exception raised (dates is 1-based here, 0-based in the source)
get_values_on(d) ==
    LET bisect_insert == bisect(dates, d)
        low_i == bisect_insert - 1
        high_i == bisect_insert
        low == IF low_i > 0 THEN dates[low_i + 1] ELSE NoDate
        high == IF high_i < Len(dates) THEN dates[high_i + 1] ELSE NoDate
        err_low == IF low # NoDate THEN d - low ELSE Inf
        \* (high - dt) is evaluated when low is a date, also when high is None
        err_high == IF low # NoDate THEN high - d ELSE Inf
    IN IF low # NoDate /\ high = NoDate
       THEN [kind |-> "TypeError", rec |-> NoItem]
       ELSE IF err_low <= err_high /\ err_low < max_error
       THEN [kind |-> "record", rec |-> content[low]]
       ELSE IF err_high <= err_low /\ err_high < max_error
       THEN [kind |-> "record", rec |-> content[high]]
       ELSE [kind |-> "None", rec |-> NoItem]

GetValuesOn(d) ==
    /\ tstate = "built"
    /\ dt' = d
    /\ found' = get_values_on(d)
    /\ UNCHANGED <<tstate, content, dates, max_error>>
    /\ UNCHANGED <<deltaVars, exchVars, portVars, parserVars>>

TableNew ==
    /\ tstate = "new"
    /\ content = << >>
    /\ dates = << >>
    /\ max_error = 0
    /\ dt = NoDate
    /\ found = [kind |-> "unasked", rec |-> NoItem]


(***************************************************************************)
(* Portfolio.get_balances_from_deltas                                      *)
(***************************************************************************)
MaxStamp == 3
MaxDeltas == 3

\* pyhodl.config.NAN, the marker of an unknown value: no delta value equals it
NAN == -1000000

Stamp == 1..MaxStamp
DeltaValue == {-2, 3, 5, NAN}
Delta == [datetime : Stamp, value : DeltaValue]

\* sorted(seq, key=lambda x: x[DATE_TIME_KEY]): stable, ascending
RECURSIVE insert_by_date(_, _)
insert_by_date(s, x) ==
    IF s = << >> THEN <<x>>
    ELSE IF s[Len(s)].datetime <= x.datetime
         THEN Append(s, x)
         ELSE Append(insert_by_date(SubSeq(s, 1, Len(s) - 1), x), s[Len(s)])

\* the deltas left in the order given
Unsorted(s) == s

RECURSIVE sorted_by_date(_)
sorted_by_date(s) ==
    IF s = << >> THEN << >>
    ELSE insert_by_date(sorted_by_date(SubSeq(s, 1, Len(s) - 1)), s[Len(s)])

\* the loop of lines 177-181
RECURSIVE running_sum(_, _)
running_sum(bal, rest) ==
    IF rest = << >> THEN bal
    ELSE running_sum(
            Append(bal, [datetime |-> Head(rest).datetime,
                         value |-> bal[Len(bal)].value + Head(rest).value]),
            Tail(rest))

known(delta) == delta.value # NAN

\* the outcome of get_balances_from_deltas(deltas)
get_balances_from_deltas(ds) ==
    IF ds = << >>
    THEN [raised |-> "no", out |-> << >>]
    ELSE LET kept == sorted_by_date(SelectSeq(ds, known))
         IN IF kept = << >>
            THEN [raised |-> "IndexError", out |-> << >>]    \* deltas[0]
            ELSE [raised |-> "no", out |-> running_sum(<<kept[1]>>, Tail(kept))]

NotCalled == [raised |-> "not called", out |-> << >>]

GetBalancesFromDeltas ==
    /\ dpc = "start"
    /\ balances' = get_balances_from_deltas(deltas)
    /\ dpc' = "called"
    /\ UNCHANGED <<deltas, shuffled, shuffled_balances>>
    /\ UNCHANGED <<tableVars, exchVars, portVars, parserVars>>

\* the same collection of deltas handed over in another order
Shuffles(s) ==
    {[i \in 1..Len(s) |-> s[p[i]]] : p \in Permutations(1..Len(s))}

GetBalancesFromShuffled ==
    /\ dpc = "called"
    /\ \E s \in Shuffles(deltas) :
            /\ shuffled' = s
            /\ shuffled_balances' = get_balances_from_deltas(s)
    /\ dpc' = "replayed"
    /\ UNCHANGED <<deltas, balances>>
    /\ UNCHANGED <<tableVars, exchVars, portVars, parserVars>>

\* the state before the call on the deltas ds
DeltaStart(ds) ==
    /\ dpc = "start"
    /\ deltas = ds
    /\ balances = NotCalled
    /\ shuffled = << >>
    /\ shuffled_balances = NotCalled

DeltaGiven == \E ds \in SeqsUpTo(Delta, MaxDeltas) : DeltaStart(ds)

(***************************************************************************)
(* CryptoExchange                                                          *)
(***************************************************************************)
MaxTransactions == 3

Coin == {"BTC", "USD"}
\* a Transaction as build_wallets reads it: its two coins (or None) and its
\* success flag
Transaction == [coin_buy : Coin \cup {"None"}, coin_sell : Coin \cup {"None"},
                successful : BOOLEAN]

\* Transaction.get_coins: the coins the transaction touches
get_coins(transaction) ==
    {transaction.coin_buy, transaction.coin_sell} \ {"None"}

\* Wallet(coin): a wallet with no transaction yet
Wallet(coin) == << >>
\* Wallet.add_transaction
add_transaction(wallet, transaction) == Append(wallet, transaction)

InitWithoutCheck(txs) == [raised |-> "no", transactions |-> txs]

\* CryptoExchange.__init__: raises and leaves no object, or keeps the list
crypto_exchange_init(txs) ==
    IF txs = << >>
    THEN [raised |-> "ValueError", transactions |-> << >>]
    ELSE [raised |-> "no", transactions |-> txs]

CryptoExchangeInit ==
    /\ estate = "none"
    /\ \E txs \in SeqsUpTo(Transaction, MaxTransactions) :
            /\ given' = txs
            /\ estate' = IF crypto_exchange_init(txs).raised = "no"
                         THEN "built" ELSE crypto_exchange_init(txs).raised
            /\ transactions' = crypto_exchange_init(txs).transactions
    /\ UNCHANGED <<wallets, wallets_built>>
    /\ UNCHANGED <<tableVars, deltaVars, portVars, parserVars>>

is_successful_transaction(x) == x.successful

\* get_transactions(lambda x: x.successful): the transactions the rule
\* accepts, in order
get_successful_transactions(txs) == SelectSeq(txs, is_successful_transaction)

\* the loop of lines 101-106 over the transactions left, wallets so far in w
RECURSIVE fill_wallets(_, _)
fill_wallets(w, txs) ==
    IF txs = << >> THEN w
    ELSE LET transaction == Head(txs)
             created == [coin \in DOMAIN w \cup get_coins(transaction) |->
                            IF coin \in DOMAIN w THEN w[coin] ELSE Wallet(coin)]
         IN fill_wallets(
                [coin \in DOMAIN created |->
                    IF coin \in get_coins(transaction)
                    THEN add_transaction(created[coin], transaction)
                    ELSE created[coin]],
                Tail(txs))

BuildWalletsOfAll(txs) == fill_wallets(<< >>, txs)

build_wallets(txs) ==
    fill_wallets(<< >>, get_successful_transactions(txs))

BuildWallets ==
    /\ estate = "built"
    /\ ~wallets_built
    /\ wallets' = build_wallets(transactions)
    /\ wallets_built' = TRUE
    /\ UNCHANGED <<estate, given, transactions>>
    /\ UNCHANGED <<tableVars, deltaVars, portVars, parserVars>>

ExchNone ==
    /\ estate = "none"
    /\ given = << >>
    /\ transactions = << >>
    /\ wallets = << >>
    /\ wallets_built = FALSE


(***************************************************************************)
(* Portfolio.get_current_balance                                           *)
(***************************************************************************)
MaxWallets == 3

\* a wallet as get_current_balance reads it: base_currency, balance() and
\* balance(currency, True)
WalletBalance == [symbol : {"BTC", "ETH"}, balance : {-1, 0, 2}, value : {0, 4, 6}]

is_nan(candidate) == candidate = NAN

\* sum(...) over a list of numbers
RECURSIVE sum(_)
sum(s) == IF s = << >> THEN 0 ELSE Head(s) + sum(Tail(s))

value_known(balance) == ~is_nan(balance.value)

sum_total_balance(bals) ==
    LET counted == SelectSeq(bals, value_known)
    IN sum([i \in DOMAIN counted |-> counted[i].value])

\* pyhodl.utils.misc.get_ratio and get_percentage
get_ratio(new, last) == IF last = 0 THEN 0 ELSE new \div last
get_percentage(new, total) == IF total = 0 THEN 0 ELSE (100 * new) \div total

\* sorted(seq, key=lambda x: x[VALUE_KEY], reverse=True): stable, descending
RECURSIVE insert_by_value(_, _)
insert_by_value(s, x) ==
    IF s = << >> THEN <<x>>
    ELSE IF s[Len(s)].value >= x.value
         THEN Append(s, x)
         ELSE Append(insert_by_value(SubSeq(s, 1, Len(s) - 1), x), s[Len(s)])

RECURSIVE InsertByValueAscending(_, _)
InsertByValueAscending(s, x) ==
    IF s = << >> THEN <<x>>
    ELSE IF s[Len(s)].value <= x.value
         THEN Append(s, x)
         ELSE Append(InsertByValueAscending(SubSeq(s, 1, Len(s) - 1), x), s[Len(s)])

RECURSIVE SortedAscending(_)
SortedAscending(s) ==
    IF s = << >> THEN << >>
    ELSE InsertByValueAscending(SortedAscending(SubSeq(s, 1, Len(s) - 1)), s[Len(s)])

RECURSIVE sorted_by_value_reverse(_)
sorted_by_value_reverse(s) ==
    IF s = << >> THEN << >>
    ELSE insert_by_value(sorted_by_value_reverse(SubSeq(s, 1, Len(s) - 1)), s[Len(s)])

holds_coins(balance) == balance.balance > 0

get_current_balance(ws) ==
    LET bals == [i \in DOMAIN ws |->
                    [symbol |-> ws[i].symbol, balance |-> ws[i].balance,
                     value |-> ws[i].value]]
        tot_balance == sum_total_balance(bals)
        priced == [i \in DOMAIN bals |->
                    [symbol |-> bals[i].symbol, balance |-> bals[i].balance,
                     value |-> bals[i].value,
                     price |-> get_ratio(bals[i].value, bals[i].balance),
                     percentage |-> get_percentage(bals[i].value, tot_balance)]]
    IN sorted_by_value_reverse(SelectSeq(priced, holds_coins))

GetCurrentBalance ==
    /\ pstate = "built"
    /\ current_balance' = get_current_balance(pwallets)
    /\ pstate' = "asked"
    /\ UNCHANGED <<pwallets, last_balance, shown>>
    /\ UNCHANGED <<tableVars, deltaVars, exchVars, parserVars>>

(* Portfolio.show_balance *)
MaxHeld == 2

\* parse_balance(last): the value of each coin of the snapshot and the time
\* it was taken; show_balance is given no snapshot where given is FALSE
NoSnapshot == [given |-> FALSE, value |-> << >>, date |-> NoDate]
Snapshot ==
    {NoSnapshot} \cup
    [given : {TRUE},
     value : UNION {[S -> {0, 4}] : S \in SUBSET {"BTC", "ETH"}},
     date : {1}]

\* the outcome of a function of numbers: its value, or the exception raised.
\* An argument that may be None is << >> for None and <<x>> for the number x
Returns(num) == [raised |-> "no", num |-> num]
Raises(exception) == [raised |-> exception, num |-> 0]

\* float(last) is evaluated before last is compared with None
get_relative_delta(new, last_val) ==
    IF last_val = << >>
    THEN Raises("TypeError")
    ELSE Returns(new - last_val[1])

\* 100.0 * (new / last - 1.0) of the values of the model, which divide evenly
get_relative_percentage(new, last_val) ==
    IF last_val = << >> THEN Returns(0)
    ELSE IF last_val[1] = 0 /\ new # 0 THEN Returns(Inf)
    ELSE IF last_val[1] = 0 THEN Raises("ZeroDivisionError")
    ELSE Returns((100 * new) \div last_val[1] - 100)

\* last[balance["symbol"]][VALUE_KEY] if last and balance["symbol"] in last
last_val_of(balance, snapshot) ==
    IF snapshot.given /\ balance.symbol \in DOMAIN snapshot.value
    THEN <<snapshot.value[balance.symbol]>>
    ELSE << >>

\* a row of the table: the numbers num_to_str formats, delta before percentage
pretty_balance(balance, snapshot) ==
    LET current_val == balance.value
        last_val == last_val_of(balance, snapshot)
        delta == get_relative_delta(current_val, last_val)
        percentage == get_relative_percentage(current_val, last_val)
    IN [raised |-> IF delta.raised # "no" THEN delta.raised ELSE percentage.raised,
        balance |-> balance,
        delta |-> delta.num,
        delta_percentage |-> percentage.num]

\* the rows in the order of the balances, up to the first that raises
pretty_balances(bals, snapshot) ==
    LET table == [i \in DOMAIN bals |-> pretty_balance(bals[i], snapshot)]
        failed == {i \in DOMAIN table : table[i].raised # "no"}
    IN IF failed = {}
       THEN [raised |-> "no", table |-> table]
       ELSE [raised |-> table[Min(failed)].raised, table |-> << >>]

\* sum([float(coin[VALUE_KEY]) for symbol, coin in last.items() ...])
RECURSIVE sum_values(_)
sum_values(value) ==
    IF DOMAIN value = {} THEN 0
    ELSE LET symbol == CHOOSE k \in DOMAIN value : TRUE
         IN value[symbol]
                + sum_values([k \in DOMAIN value \ {symbol} |-> value[k]])

ShowBalanceRaises(exception) ==
    [raised |-> exception, table |-> << >>, total_value |-> 0,
     delta |-> 0, percentage |-> 0, saved |-> FALSE,
     last_total |-> << >>, last_time |-> NoDate]

NotShown == ShowBalanceRaises("not called")

\* the outcome of show_balance(last, save_to): what it prints, whether it
\* saves, and the tuple it returns
show_balance(ws, snapshot, save_to) ==
    LET bals == get_current_balance(ws)
        pretty_table == pretty_balances(bals, snapshot)
        total_value == sum_total_balance(bals)
        last_time == IF snapshot.given THEN snapshot.date ELSE NoDate
        last_total_balance == sum_values(snapshot.value)
        delta == get_relative_delta(total_value, <<last_total_balance>>)
        percentage == get_relative_percentage(total_value, <<last_total_balance>>)
    IN IF pretty_table.raised # "no"
       THEN ShowBalanceRaises(pretty_table.raised)
       ELSE IF snapshot.given /\ percentage.raised # "no"
       THEN ShowBalanceRaises(percentage.raised)
       ELSE [raised |-> "no",
             table |-> pretty_table.table,
             total_value |-> total_value,
             delta |-> IF snapshot.given THEN delta.num ELSE 0,
             percentage |-> IF snapshot.given THEN percentage.num ELSE 0,
             saved |-> save_to,
             \* sum_total_balance(last) counts the dicts among the keys of last
             last_total |-> IF snapshot.given THEN <<0>> ELSE << >>,
             last_time |-> last_time]

ShowBalance(save_to) ==
    /\ shown' = show_balance(pwallets, last_balance, save_to)
    /\ UNCHANGED <<pwallets, pstate, current_balance, last_balance>>
    /\ UNCHANGED <<tableVars, deltaVars, exchVars, parserVars>>

\* Portfolio.__init__ on the wallets ws, and the snapshot kept from a run before
PortfolioWith(ws, snapshot) ==
    /\ pstate = "built"
    /\ pwallets = ws
    /\ current_balance = << >>
    /\ last_balance = snapshot
    /\ shown = NotShown

PortfolioOf(ws) == PortfolioWith(ws, NoSnapshot)

PortToShow ==
    \E ws \in SeqsUpTo(WalletBalance, MaxHeld), snapshot \in Snapshot :
        PortfolioWith(ws, snapshot)

PortBuilt == \E ws \in SeqsUpTo(WalletBalance, MaxWallets) : PortfolioOf(ws)

(***************************************************************************)
(* The parsers of raw exchange records                                     *)
(* A string that is sliced is a sequence of characters; None, where the    *)
(* other values are such strings, is NoCoin.  A raw record is a record of  *)
(* its values and, where the parser tests for a key, the set of its keys.  *)
(***************************************************************************)
MaxQty == 2

NoCoin == <<"None">>
BTC == <<"B", "T", "C">>
ETH == <<"E", "T", "H">>
USD == <<"U", "S", "D">>
USDT == <<"U", "S", "D", "T">>

\* the outcome of get_coins_amounts: the tuple returned
CoinsAmounts(coin_buy, amount_buy, coin_sell, amount_sell) ==
    [coin_buy |-> coin_buy, amount_buy |-> amount_buy,
     coin_sell |-> coin_sell, amount_sell |-> amount_sell]

abs(x) == IF x < 0 THEN -x ELSE x

\* Python slices s[:-3], s[-3:], s[:3], s[3:]
but_last3(s) == SubSeq(s, 1, Len(s) - 3)
last3(s) == SubSeq(s, IF Len(s) > 3 THEN Len(s) - 2 ELSE 1, Len(s))
first3(s) == SubSeq(s, 1, IF Len(s) > 3 THEN 3 ELSE Len(s))
from3(s) == SubSeq(s, 4, Len(s))

\* str.endswith
endswith(s, suffix) ==
    /\ Len(s) >= Len(suffix)
    /\ SubSeq(s, Len(s) - Len(suffix) + 1, Len(s)) = suffix

\* str.replace(old, ""): every occurrence of old removed, left to right
RECURSIVE remove_all(_, _)
remove_all(s, old) ==
    IF Len(s) < Len(old) THEN s
    ELSE IF SubSeq(s, 1, Len(old)) = old
         THEN remove_all(SubSeq(s, Len(old) + 1, Len(s)), old)
         ELSE <<Head(s)>> \o remove_all(Tail(s), old)

(* BinanceParser *)
BinanceRaw ==
    [keys : SUBSET {"isBuyer", "insertTime", "applyTime",
                    "commissionAsset", "commission", "successTime"},
     symbol : {ETH \o BTC, BTC \o USDT},
     qty : 1..MaxQty, price : {3}, isBuyer : BOOLEAN,
     asset : {BTC, ETH}, amount : {4},
     commissionAsset : {BTC}, commission : {1}, status : {1, 6}]

binance_is_trade(r) == "isBuyer" \in r.keys
binance_is_deposit(r) == "insertTime" \in r.keys
binance_is_withdrawal(r) == "applyTime" \in r.keys

binance_get_coins_amounts(r) ==
    IF binance_is_trade(r)
    THEN LET market == r.symbol
             \* lines 34-35: the pair assigned when the market ends with USDT
             pair_34 == IF endswith(market, USDT)
                        THEN <<remove_all(market, USDT), USDT>>
                        ELSE << >>
             \* line 37 assigns the pair again, in every case
             pair == <<but_last3(market), last3(market)>>
             coin_buy == pair[1]
             coin_sell == pair[2]
             amount_buy == r.qty
             amount_sell == r.price * amount_buy
         IN IF r.isBuyer
            THEN CoinsAmounts(coin_buy, amount_buy, coin_sell, amount_sell)
            ELSE CoinsAmounts(coin_sell, amount_sell, coin_buy, amount_buy)
    ELSE IF binance_is_deposit(r)
    THEN CoinsAmounts(r.asset, r.amount, NoCoin, 0)
    ELSE IF binance_is_withdrawal(r)
    THEN CoinsAmounts(NoCoin, 0, r.asset, r.amount)
    ELSE CoinsAmounts(NoCoin, 0, NoCoin, 0)

(* BitfinexParser *)
BitfinexRaw ==
    [type : {"Sell", "Buy", "WITHDRAWAL", "DEPOSIT", "CANCELED"},
     symbol : {ETH \o BTC, BTC \o USD},
     amount : 1..MaxQty, price : {3}, currency : {BTC, ETH},
     fee_currency : {BTC}, fee_amount : {-1, 1}, fee : {1},
     status : {"COMPLETED", "CANCELED"}]

bitfinex_is_trade(r) == r.type \in {"Sell", "Buy"}
bitfinex_is_withdrawal(r) == r.type = "WITHDRAWAL"
bitfinex_is_deposit(r) == r.type = "DEPOSIT"

bitfinex_get_coins_amounts(r) ==
    IF bitfinex_is_trade(r)
    THEN LET coin_buy == first3(r.symbol)
             coin_sell == from3(r.symbol)
             buy_amount == r.amount
             sell_amount == buy_amount * r.price
         IN IF r.type = "Buy"
            THEN CoinsAmounts(coin_buy, buy_amount, coin_sell, sell_amount)
            ELSE CoinsAmounts(coin_sell, sell_amount, coin_buy, buy_amount)
    ELSE IF bitfinex_is_deposit(r)
    THEN CoinsAmounts(r.currency, r.amount, NoCoin, 0)
    ELSE IF bitfinex_is_withdrawal(r)
    THEN CoinsAmounts(NoCoin, 0, r.currency, r.amount)
    ELSE CoinsAmounts(NoCoin, 0, NoCoin, 0)

(* CoinbaseParser *)
Money(currencies, amounts) == [currency : currencies, amount : amounts]

CoinbaseRaw ==
    [type : {"buy", "sell", "send"},
     amount : Money({BTC, USD}, {-1, 0, MaxQty}),
     native_amount : Money({USD}, {-3, 0, 3}),
     keys : SUBSET {"network"},
     network : [keys : SUBSET {"transaction_fee"},
                transaction_fee : Money({BTC}, {1}),
                status : {"confirmed", "pending"}]]

coinbase_is_trade(r) == r.type \in {"buy", "sell"}
coinbase_is_withdrawal(r) == r.amount.amount < 0 /\ r.native_amount.amount < 0
coinbase_is_deposit(r) == r.amount.amount >= 0 /\ r.native_amount.amount >= 0

coinbase_get_coins_amounts(r) ==
    IF coinbase_is_trade(r)
    THEN LET coin == r.amount.currency
             currency == r.native_amount.currency
         IN IF coin # currency
            THEN LET coin_buy == currency
                     amount_buy == abs(r.native_amount.amount)
                     coin_sell == coin
                     amount_sell == abs(r.amount.amount)
                 IN IF r.type = "sell"
                    THEN CoinsAmounts(coin_buy, amount_buy, coin_sell, amount_sell)
                    ELSE CoinsAmounts(coin_sell, amount_sell, coin_buy, amount_buy)
            ELSE CoinsAmounts(NoCoin, 0, NoCoin, 0)
    ELSE IF coinbase_is_deposit(r)
    THEN CoinsAmounts(r.amount.currency, abs(r.amount.amount), NoCoin, 0)
    ELSE IF coinbase_is_withdrawal(r)
    THEN CoinsAmounts(NoCoin, 0, r.amount.currency, abs(r.amount.amount))
    ELSE CoinsAmounts(NoCoin, 0, NoCoin, 0)

(* GdaxParser *)
GdaxRaw ==
    [type : {"transfer", "match", "fee"},
     details : [keys : SUBSET {"product_id"},
                transfer_type : {"deposit", "withdraw"}],
     amount : {-1, 0, MaxQty}, currency : {BTC, USD}]

gdax_is_trade(r) == "product_id" \in r.details.keys

gdax_get_transfer_type(r) ==
    IF r.type = "transfer" THEN r.details.transfer_type ELSE "None"

gdax_is_withdrawal(r) == gdax_get_transfer_type(r) = "withdraw"
gdax_is_deposit(r) == gdax_get_transfer_type(r) = "deposit"

gdax_get_coins_amounts(r) ==
    LET amount == r.amount
        coin == r.currency
    IN IF amount >= 0
       THEN CoinsAmounts(coin, abs(amount), NoCoin, 0)
       ELSE CoinsAmounts(NoCoin, 0, coin, abs(amount))

NotParsed == CoinsAmounts(NoCoin, -1, NoCoin, -1)

(* get_commission *)
\* the outcome of get_commission: a Commission, None, or the exception raised
CommissionOf(coin, amount, successful) ==
    [kind |-> "Commission", coin |-> coin, amount |-> amount,
     successful |-> successful]
NoCommission(kind) ==
    [kind |-> kind, coin |-> NoCoin, amount |-> 0, successful |-> FALSE]
NoCommissionCall == NoCommission("not called")

\* BinanceParser.get_date: the exception it raises, "no" when it returns
binance_get_date_raises(r) ==
    IF binance_is_trade(r) THEN "no"
    ELSE IF binance_is_deposit(r) THEN "no"
    ELSE IF binance_is_withdrawal(r)
    THEN (IF "successTime" \in r.keys THEN "no" ELSE "KeyError")
    ELSE "no"

binance_is_successful(r) ==
    IF binance_is_trade(r) THEN "commission" \in r.keys
    ELSE IF binance_is_deposit(r) THEN r.status = 1
    ELSE IF binance_is_withdrawal(r) THEN r.status = 6
    ELSE FALSE

binance_get_commission(r) ==
    IF "commissionAsset" \in r.keys
    THEN IF "commission" \notin r.keys
         THEN NoCommission("KeyError")                 \* raw["commission"]
         ELSE IF binance_get_date_raises(r) # "no"
         THEN NoCommission(binance_get_date_raises(r))
         ELSE CommissionOf(r.commissionAsset, r.commission,
                           binance_is_successful(r))
    ELSE NoCommission("None")

\* BitfinexParser.get_fee: <<coin, amount>>, or << >> for None
bitfinex_get_fee(r) ==
    IF bitfinex_is_trade(r)
    THEN <<r.fee_currency, abs(r.fee_amount)>>
    ELSE IF bitfinex_is_deposit(r) \/ bitfinex_is_trade(r)
    THEN <<r.currency, abs(r.fee)>>
    ELSE << >>

bitfinex_is_successful(r) ==
    IF bitfinex_is_trade(r) THEN r.fee_amount <= 0
    ELSE IF bitfinex_is_deposit(r) \/ bitfinex_is_withdrawal(r)
    THEN r.status = "COMPLETED"
    ELSE FALSE

bitfinex_get_commission(r) ==
    IF bitfinex_get_fee(r) = << >>
    THEN NoCommission("TypeError")     \* fee_coin, amount = None
    ELSE LET fee_coin == bitfinex_get_fee(r)[1]
             amount == bitfinex_get_fee(r)[2]
         IN IF fee_coin # << >>
            THEN CommissionOf(fee_coin, amount, bitfinex_is_successful(r))
            ELSE NoCommission("None")

\* CoinbaseParser.get_commission: every exception of the body gives None
coinbase_get_commission(r) ==
    IF "network" \notin r.keys \/ "transaction_fee" \notin r.network.keys
    THEN NoCommission("None")
    ELSE CommissionOf(r.network.transaction_fee.currency,
                      r.network.transaction_fee.amount,
                      r.network.status = "confirmed")

gdax_get_commission(r) == NoCommission("None")

BinanceGetCommission ==
    /\ parser = "BinanceParser"
    /\ commission' = binance_get_commission(raw)
    /\ UNCHANGED <<parser, raw, coins_amounts>>
    /\ UNCHANGED <<tableVars, deltaVars, exchVars, portVars>>

BitfinexGetCommission ==
    /\ parser = "BitfinexParser"
    /\ commission' = bitfinex_get_commission(raw)
    /\ UNCHANGED <<parser, raw, coins_amounts>>
    /\ UNCHANGED <<tableVars, deltaVars, exchVars, portVars>>

CoinbaseGetCommission ==
    /\ parser = "CoinbaseParser"
    /\ commission' = coinbase_get_commission(raw)
    /\ UNCHANGED <<parser, raw, coins_amounts>>
    /\ UNCHANGED <<tableVars, deltaVars, exchVars, portVars>>

GdaxGetCommission ==
    /\ parser = "GdaxParser"
    /\ commission' = gdax_get_commission(raw)
    /\ UNCHANGED <<parser, raw, coins_amounts>>
    /\ UNCHANGED <<tableVars, deltaVars, exchVars, portVars>>

(* dispatch on the parser class *)
Parsers == {"BinanceParser", "BitfinexParser", "CoinbaseParser", "GdaxParser"}

is_trade(p, r) ==
    CASE p = "BinanceParser" -> binance_is_trade(r)
      [] p = "BitfinexParser" -> bitfinex_is_trade(r)
      [] p = "CoinbaseParser" -> coinbase_is_trade(r)
      [] p = "GdaxParser" -> gdax_is_trade(r)

is_deposit(p, r) ==
    CASE p = "BinanceParser" -> binance_is_deposit(r)
      [] p = "BitfinexParser" -> bitfinex_is_deposit(r)
      [] p = "CoinbaseParser" -> coinbase_is_deposit(r)
      [] p = "GdaxParser" -> gdax_is_deposit(r)

is_withdrawal(p, r) ==
    CASE p = "BinanceParser" -> binance_is_withdrawal(r)
      [] p = "BitfinexParser" -> bitfinex_is_withdrawal(r)
      [] p = "CoinbaseParser" -> coinbase_is_withdrawal(r)
      [] p = "GdaxParser" -> gdax_is_withdrawal(r)

BinanceGetCoinsAmounts ==
    /\ parser = "BinanceParser"
    /\ coins_amounts' = binance_get_coins_amounts(raw)
    /\ UNCHANGED <<parser, raw, commission>>
    /\ UNCHANGED <<tableVars, deltaVars, exchVars, portVars>>

BitfinexGetCoinsAmounts ==
    /\ parser = "BitfinexParser"
    /\ coins_amounts' = bitfinex_get_coins_amounts(raw)
    /\ UNCHANGED <<parser, raw, commission>>
    /\ UNCHANGED <<tableVars, deltaVars, exchVars, portVars>>

CoinbaseGetCoinsAmounts ==
    /\ parser = "CoinbaseParser"
    /\ coins_amounts' = coinbase_get_coins_amounts(raw)
    /\ UNCHANGED <<parser, raw, commission>>
    /\ UNCHANGED <<tableVars, deltaVars, exchVars, portVars>>

GdaxGetCoinsAmounts ==
    /\ parser = "GdaxParser"
    /\ coins_amounts' = gdax_get_coins_amounts(raw)
    /\ UNCHANGED <<parser, raw, commission>>
    /\ UNCHANGED <<tableVars, deltaVars, exchVars, portVars>>

\* a parser and a raw record of its exchange, nothing asked of it yet
ParserOf(p, r) ==
    /\ parser = p
    /\ raw = r
    /\ coins_amounts = NotParsed
    /\ commission = NoCommissionCall

ParserIdle == ParserOf("None", << >>)

ParserGiven ==
    \/ \E r \in BinanceRaw : ParserOf("BinanceParser", r)
    \/ \E r \in BitfinexRaw : ParserOf("BitfinexParser", r)
    \/ \E r \in CoinbaseRaw : ParserOf("CoinbaseParser", r)
    \/ \E r \in GdaxRaw : ParserOf("GdaxParser", r)


(***************************************************************************)
(* DatetimeTable.get_values_on: what the lookup is to return               *)
(***************************************************************************)
Asked == tstate = "built" /\ found.kind # "unasked"

Max(S) == CHOOSE x \in S : \A y \in S : x >= y

\* the indexed dates at or before, and after, the query date
Preceding == {d \in DOMAIN content : d <= dt}
Following == {d \in DOMAIN content : d > dt}
\* the distance of the query to its neighbour on each side, Inf without one
ErrPreceding == IF Preceding = {} THEN Inf ELSE dt - Max(Preceding)
ErrFollowing == IF Following = {} THEN Inf ELSE Min(Following) - dt
ErrNearer == IF ErrPreceding <= ErrFollowing THEN ErrPreceding ELSE ErrFollowing
\* the neighbours at the smaller distance
Nearer ==
    {d \in DOMAIN content :
        \/ d = dt - ErrPreceding /\ ErrPreceding <= ErrFollowing
        \/ d = dt + ErrFollowing /\ ErrFollowing <= ErrPreceding}

Returned(d) == found = [kind |-> "record", rec |-> content[d]]

\* C1: a query date that is an indexed date gets the record stored for that
\* date, whatever the tolerance
C1_ExactMatchReturned ==
    (Asked /\ dt \in DOMAIN content) => Returned(dt)

\* C2: when the nearer neighbour is at a distance of at most max_error, the
\* lookup returns the record of that neighbour
C2_NearerWithinToleranceReturned ==
    (Asked /\ Nearer # {} /\ ErrNearer <= max_error)
        => \E d \in Nearer : Returned(d)

\* C3: with both neighbours farther than max_error (a missing neighbour is
\* infinitely far) the lookup returns None, and a record it returns is the
\* record of an indexed date within max_error of the query
C3_BoundedLookup ==
    Asked =>
        /\ (ErrPreceding > max_error /\ ErrFollowing > max_error)
                => found.kind = "None"
        /\ found.kind = "record"
                => \E d \in DOMAIN content :
                        /\ Returned(d)
                        /\ d - dt <= max_error
                        /\ dt - d <= max_error

\* C4: a query with no neighbour on one side gets the record of the
\* neighbour on the other side when that one is within max_error
C4_MissingNeighbourIgnored ==
    Asked =>
        /\ (Preceding = {} /\ ErrFollowing <= max_error)
                => Returned(Min(Following))
        /\ (Following = {} /\ ErrPreceding <= max_error)
                => Returned(Max(Preceding))

(***************************************************************************)
(* Portfolio.get_balances_from_deltas                                      *)
(***************************************************************************)
Replayed == dpc = "replayed"

\* C5 as stated: the deltas in any other order give the same balances
C5_OrderIndependent ==
    Replayed => shuffled_balances = balances

\* no two deltas of known value share a date and differ in value
TiesAgree ==
    \A i, j \in DOMAIN deltas :
        (known(deltas[i]) /\ known(deltas[j])
            /\ deltas[i].datetime = deltas[j].datetime)
        => deltas[i].value = deltas[j].value

\* C5 (amended): the deltas in any other order give the same outcome when the
\* deltas of known value that share a date carry the same value
C5_OrderIndependentUpToTies ==
    (Replayed /\ TiesAgree) => shuffled_balances = balances

C5_Witness ==
    /\ Replayed /\ TiesAgree
    /\ Len(deltas) = 3
    /\ shuffled # deltas
    /\ deltas[1].datetime > deltas[2].datetime
    /\ Len(balances.out) = 3

KnownDeltas == SelectSeq(deltas, known)

\* the sum of the known deltas dated d or earlier
RECURSIVE SumUpTo(_, _)
SumUpTo(s, d) ==
    IF s = << >> THEN 0
    ELSE (IF Head(s).datetime <= d THEN Head(s).value ELSE 0) + SumUpTo(Tail(s), d)

\* C6: the call returns, for the deltas of known value in ascending date
\* order, their prefix sums, the last one the sum of them all; with no delta
\* of known value it returns the empty series
C6_PrefixSums ==
    dpc # "start" =>
        /\ balances.raised = "no"
        /\ Len(balances.out) = Len(KnownDeltas)
        /\ \A i \in DOMAIN balances.out :
                /\ i > 1 => balances.out[i - 1].datetime <= balances.out[i].datetime
                /\ (i = Len(balances.out)
                        \/ balances.out[i + 1].datetime > balances.out[i].datetime)
                    => balances.out[i].value
                            = SumUpTo(KnownDeltas, balances.out[i].datetime)

(***************************************************************************)
(* CryptoExchange                                                          *)
(***************************************************************************)
Touches(transaction, coin) ==
    transaction.coin_buy = coin \/ transaction.coin_sell = coin

SuccessfulTouching(coin) ==
    LET Test(t) == t.successful /\ Touches(t, coin)
    IN SelectSeq(transactions, Test)

\* C7: build_wallets returns one wallet per coin that a successful
\* transaction touches, holding in arrival order exactly the successful
\* transactions that touch the coin
C7_WalletsOfSuccessful ==
    wallets_built =>
        /\ DOMAIN wallets = {c \in Coin : SuccessfulTouching(c) # << >>}
        /\ \A c \in DOMAIN wallets : wallets[c] = SuccessfulTouching(c)

C7_Witness ==
    /\ wallets_built
    /\ Len(transactions) = 3
    /\ \E i, j \in DOMAIN transactions :
            /\ i < j
            /\ ~transactions[i].successful
            /\ transactions[i].coin_buy = "USD"
            /\ transactions[j].successful
            /\ transactions[j].coin_buy = "BTC"
            /\ transactions[j].coin_sell = "USD"
    /\ DOMAIN wallets = {"BTC", "USD"}
    /\ Len(wallets["BTC"]) = 2
    /\ Len(wallets["USD"]) = 1

\* C8: constructing from no transaction raises and leaves no exchange;
\* constructing from transactions keeps them as given
C8_EmptyHistoryRaises ==
    estate # "none" =>
        IF given = << >>
        THEN estate = "ValueError" /\ transactions = << >>
        ELSE estate = "built" /\ transactions = given

C8_Witness ==
    estate = "ValueError" /\ given = << >> /\ ~wallets_built

(***************************************************************************)
(* Portfolio.get_current_balance                                           *)
(***************************************************************************)
\* how many entries of s are the wallet w
Count(s, w) ==
    Cardinality({i \in DOMAIN s :
        /\ s[i].symbol = w.symbol
        /\ s[i].balance = w.balance
        /\ s[i].value = w.value})

ShowAsked == shown.raised # "not called"

\* the coins held that have no value in the snapshot
WithoutPrior ==
    {i \in DOMAIN get_current_balance(pwallets) :
        last_val_of(get_current_balance(pwallets)[i], last_balance) = << >>}

\* C12: show_balance of a portfolio with a positive balance, given no
\* snapshot or a snapshot without a coin that is held, does not raise, and the
\* delta and the relative percentage of every coin without a prior value are
\* zero; get_relative_delta of a missing last value is zero
C12_GracefulWithoutLast ==
    (ShowAsked /\ WithoutPrior # {}) =>
        /\ shown.raised = "no"
        /\ \A i \in WithoutPrior :
                /\ shown.table[i].delta = 0
                /\ shown.table[i].delta_percentage = 0
        /\ \A i \in WithoutPrior :
                get_relative_delta(get_current_balance(pwallets)[i].value, << >>)
                    = Returns(0)

(***************************************************************************)
(* The parsers: classification                                             *)
(***************************************************************************)
Parsed == parser \in Parsers
\* get_coins_amounts has been called on the record
CoinsAsked == Parsed /\ coins_amounts # NotParsed

Classes(p, r) ==
    {c \in {"trade", "deposit", "withdrawal"} :
        \/ c = "trade" /\ is_trade(p, r)
        \/ c = "deposit" /\ is_deposit(p, r)
        \/ c = "withdrawal" /\ is_withdrawal(p, r)}

\* C10: exactly one of is_trade, is_deposit, is_withdrawal holds of a raw
\* record, and a record of which none holds is not turned into the tuple of
\* no coin and no amount
C10_ExclusiveAndTotal ==
    Parsed =>
        /\ Cardinality(Classes(parser, raw)) = 1
        /\ (CoinsAsked /\ Classes(parser, raw) = {})
                => coins_amounts # CoinsAmounts(NoCoin, 0, NoCoin, 0)

\* the class of a record of which exactly one predicate holds
ClassifiedAs(c) == CoinsAsked /\ Classes(parser, raw) = {c}

\* C11: the tuple of a trade names both coins, the tuple of a deposit only
\* the coin bought (no coin and amount 0 sold), the tuple of a withdrawal
\* only the coin sold (no coin and amount 0 bought)
C11_ShapeOfClass ==
    /\ ClassifiedAs("trade")
            => coins_amounts.coin_buy # NoCoin /\ coins_amounts.coin_sell # NoCoin
    /\ ClassifiedAs("deposit")
            => /\ coins_amounts.coin_buy # NoCoin
               /\ coins_amounts.coin_sell = NoCoin
               /\ coins_amounts.amount_sell = 0
    /\ ClassifiedAs("withdrawal")
            => /\ coins_amounts.coin_sell # NoCoin
               /\ coins_amounts.coin_buy = NoCoin
               /\ coins_amounts.amount_buy = 0

\* the market symbol without its last n characters, and those characters
WithoutLast(symbol, n) == SubSeq(symbol, 1, Len(symbol) - n)
Last(symbol, n) == SubSeq(symbol, Len(symbol) - n + 1, Len(symbol))

\* the tuple of a Binance trade of the base coin against the quote coin
TradeOf(base, quote) ==
    IF raw.isBuyer
    THEN CoinsAmounts(base, raw.qty, quote, raw.price * raw.qty)
    ELSE CoinsAmounts(quote, raw.price * raw.qty, base, raw.qty)

\* C14: a Binance trade on a market that ends with USDT is a trade of the
\* symbol without that suffix against USDT; on another market it is a trade
\* of the symbol without its last 3 characters against those 3 characters
C14_UsdtSuffixSplit ==
    (CoinsAsked /\ parser = "BinanceParser" /\ binance_is_trade(raw)) =>
        IF Len(raw.symbol) >= 4 /\ Last(raw.symbol, 4) = USDT
        THEN coins_amounts = TradeOf(WithoutLast(raw.symbol, 4), USDT)
        ELSE coins_amounts = TradeOf(WithoutLast(raw.symbol, 3), Last(raw.symbol, 3))

\* get_commission has been called on the record
CommissionAsked == Parsed /\ commission.kind # "not called"

\* C13: get_commission of a record classified as trade, deposit or
\* withdrawal returns a Commission or None and does not raise; it returns
\* None for a Bitfinex withdrawal and for a Binance record with
\* commissionAsset and no commission
C13_CommissionNeverRaises ==
    (CommissionAsked /\ Classes(parser, raw) # {}) =>
        /\ commission.kind \in {"Commission", "None"}
        /\ (parser = "BitfinexParser" /\ bitfinex_is_withdrawal(raw))
                => commission.kind = "None"
        /\ (parser = "BinanceParser" /\ "commissionAsset" \in raw.keys
                /\ "commission" \notin raw.keys)
                => commission.kind = "None"

(***************************************************************************)
(* Specifications: one per component, the other components idle            *)
(***************************************************************************)
DeltaIdle == DeltaStart(<< >>)
PortIdle == PortfolioOf(<< >>)

InitTable == TableNew /\ DeltaIdle /\ ExchNone /\ PortIdle /\ ParserIdle
NextTable ==
    \/ DatetimeTableInit
    \/ \E d \in Date : GetValuesOn(d)
SpecTable == InitTable /\ [][NextTable]_vars

InitDeltas == TableNew /\ DeltaGiven /\ ExchNone /\ PortIdle /\ ParserIdle
NextDeltas ==
    \/ GetBalancesFromDeltas
    \/ GetBalancesFromShuffled
SpecDeltas == InitDeltas /\ [][NextDeltas]_vars

InitExchange == TableNew /\ DeltaIdle /\ ExchNone /\ PortIdle /\ ParserIdle
NextExchange ==
    \/ CryptoExchangeInit
    \/ BuildWallets
SpecExchange == InitExchange /\ [][NextExchange]_vars

InitPortfolio == TableNew /\ DeltaIdle /\ ExchNone /\ PortBuilt /\ ParserIdle
NextPortfolio == GetCurrentBalance
SpecPortfolio == InitPortfolio /\ [][NextPortfolio]_vars

InitShow == TableNew /\ DeltaIdle /\ ExchNone /\ PortToShow /\ ParserIdle
NextShow == \E save_to \in BOOLEAN : ShowBalance(save_to)
SpecShow == InitShow /\ [][NextShow]_vars

InitParser == TableNew /\ DeltaIdle /\ ExchNone /\ PortIdle /\ ParserGiven
NextParser ==
    \/ BinanceGetCoinsAmounts
    \/ BitfinexGetCoinsAmounts
    \/ CoinbaseGetCoinsAmounts
    \/ GdaxGetCoinsAmounts
    \/ BinanceGetCommission
    \/ BitfinexGetCommission
    \/ CoinbaseGetCommission
    \/ GdaxGetCommission
SpecParser == InitParser /\ [][NextParser]_vars

====
